---- MODULE Spec2Model ----
(***************************************************************************)
(* Credential manager (apeye): the client-side field encryption contract   *)
(* and the reveal / copy state of the record tables (ApiKeysTable,         *)
(* MainDashboard, WebsitePage), and the mass-add submit (MassAddModal).    *)
(*                                                                         *)
(* Strings are sequences of integers.  Plaintext characters are            *)
(* 0..AlphabetSize-1; the glyphs of the masked placeholders are negative,  *)
(* so no plaintext of the model spells a placeholder.                      *)
(***************************************************************************)
EXTENDS Integers, Sequences, FiniteSets, Bags, TLC

\* ------------------------------------------------------------------ bounds
MaxLen == 2
AlphabetSize == 2
NumKeys == 2
NumNonces == 2
NumRecords == 2
MaxClicks == 4
MaxPending == 2
MaxEvents == 3
MaxRows == 2
MaxEdits == 3
MaxSubmits == 2
MaxRequests == 2

Chars == 0..(AlphabetSize - 1)
Keys == 1..NumKeys
Nonces == 0..(NumNonces - 1)
Strings == UNION {[1..n -> Chars] : n \in 0..MaxLen}
Null == <<-100>>

\* ------------------------------------------- field encryption (lib/encryption)
\* The key of this process; every other key of Keys is "a different key".
AppKey == 1

\* encrypt(plaintext): the ciphertext embeds the nonce n, binds the key k,
\* and carries the characters shifted by key and nonce.
Encrypt(k, n, s) ==
  <<n, k>> \o [i \in 1..Len(s) |-> (s[i] + k + n) % AlphabetSize]

WellFormed(c) ==
  /\ Len(c) >= 2
  /\ c[1] \in Nonces
  /\ c[2] \in Keys
  /\ \A i \in 3..Len(c) : c[i] \in Chars

DecryptBody(k, c) ==
  [i \in 1..(Len(c) - 2) |-> (c[i + 2] - k - c[1]) % AlphabetSize]

\* decrypt(ciphertext): a DecryptionError (err = TRUE) for a malformed
\* ciphertext or one bound to another key, the plaintext otherwise.
DecryptDropsShift(k, c) ==
  IF WellFormed(c) /\ c[2] = k
    THEN [err |-> FALSE, text |-> SubSeq(c, 3, Len(c))]
    ELSE [err |-> TRUE, text |-> <<>>]

DecryptIgnoresKey(k, c) ==
  IF WellFormed(c)
    THEN [err |-> FALSE, text |-> DecryptBody(k, c)]
    ELSE [err |-> TRUE, text |-> <<>>]

Decrypt(k, c) ==
  IF WellFormed(c) /\ c[2] = k
    THEN [err |-> FALSE, text |-> DecryptBody(k, c)]
    ELSE [err |-> TRUE, text |-> <<>>]

\* ------------------------------------------------------------------ state
VARIABLES
  \* field encryption exercised on its own
  plaintext, ciphertext, producedBy, decrypted, decryptedWith, recovered,
  \* reveal / copy state of a record table
  apiKeys, visibleKeys, visiblePasswords, decryptedData, mapHeap, copiedId,
  pendingToggles, pendingCopies, timers, clipboard, exported,
  \* observation of the run (not program state)
  lastOp, clicks, overlapped, decryptCalls, reveals, firstShown, copyAge,
  \* the mass-add modal
  rows, loading, error, submit, inserted, insertCalls, onSuccessCalls,
  onCloseCalls, callbacks, nextRowId, edits, submits,
  \* the list page and the persistence layer behind it
  stored, listed, pageLoading, isModalOpen, requests, orphanToggles,
  \* observation of the page (not program state)
  pageOp, confirmed, deletedOk,
  \* the tables of the resources schema, and the last statement run on them
  resource_categories, resources, lastQuery

cryptoVars == <<plaintext, ciphertext, producedBy, decrypted, decryptedWith,
               recovered>>
tableVars == <<apiKeys, exported, visibleKeys, visiblePasswords, decryptedData, mapHeap,
               copiedId, pendingToggles, pendingCopies, timers, clipboard>>
obsVars == <<lastOp, clicks, overlapped, decryptCalls, reveals, firstShown,
            copyAge>>
massVars == <<rows, loading, error, submit, inserted, insertCalls,
              onSuccessCalls, onCloseCalls, callbacks, nextRowId, edits, submits>>
pageVars == <<stored, listed, pageLoading, isModalOpen, requests,
              orphanToggles, pageOp, confirmed, deletedOk>>
rlsVars == <<resource_categories, resources, lastQuery>>
vars == <<cryptoVars, tableVars, obsVars, massVars, pageVars, rlsVars>>

\* ------------------------------------------------- the resources schema
\* Sessions of the role "authenticated"; auth.uid() is the session's user.
Users == {"A", "B"}
RowIds == 1..NumRecords
TableNames == {"resource_categories", "resources"}

\* The columns that the policies and the constraints read.
CategoryRows == [id : RowIds, user_id : Users]
ResourceRows == [id : RowIds, user_id : Users, category_id : RowIds]
RowsOf(name) ==
  IF name = "resource_categories" THEN CategoryRows ELSE ResourceRows
Table(name) ==
  IF name = "resource_categories" THEN resource_categories ELSE resources
RowIdsOf(table) == {r.id : r \in table}

\* The policies; uid is auth.uid().
UsersCanViewOwnCategories(uid, row) == uid = row.user_id
UsersCanInsertOwnCategories(uid, row) == uid = row.user_id
UsersCanUpdateOwnCategoriesUsing(uid, row) == uid = row.user_id
UsersCanUpdateOwnCategoriesCheck(uid, row) == uid = row.user_id
UsersCanDeleteOwnCategories(uid, row) == uid = row.user_id
UsersCanViewOwnResources(uid, row) == uid = row.user_id
UsersCanInsertOwnResources(uid, row) == uid = row.user_id
UsersCanUpdateOwnResourcesUsing(uid, row) == uid = row.user_id
UsersCanUpdateOwnResourcesCheck(uid, row) == uid = row.user_id
UsersCanDeleteOwnResources(uid, row) == uid = row.user_id

\* Row level security is enabled on both tables: a statement sees the rows
\* that pass the USING expression of the policy for its command, and a row it
\* writes has to pass the WITH CHECK expression.
Using(name, cmd, uid, row) ==
  IF name = "resource_categories"
    THEN CASE cmd = "SELECT" -> UsersCanViewOwnCategories(uid, row)
           [] cmd = "UPDATE" -> UsersCanUpdateOwnCategoriesUsing(uid, row)
           [] cmd = "DELETE" -> UsersCanDeleteOwnCategories(uid, row)
           [] OTHER -> FALSE
    ELSE CASE cmd = "SELECT" -> UsersCanViewOwnResources(uid, row)
           [] cmd = "UPDATE" -> UsersCanUpdateOwnResourcesUsing(uid, row)
           [] cmd = "DELETE" -> UsersCanDeleteOwnResources(uid, row)
           [] OTHER -> FALSE
WithCheck(name, cmd, uid, row) ==
  IF name = "resource_categories"
    THEN CASE cmd = "INSERT" -> UsersCanInsertOwnCategories(uid, row)
           [] cmd = "UPDATE" -> UsersCanUpdateOwnCategoriesCheck(uid, row)
           [] OTHER -> FALSE
    ELSE CASE cmd = "INSERT" -> UsersCanInsertOwnResources(uid, row)
           [] cmd = "UPDATE" -> UsersCanUpdateOwnResourcesCheck(uid, row)
           [] OTHER -> FALSE

\* The rows of a table that a statement with a WHERE clause on id works on:
\* they pass the SELECT policy and the policy of the command.
Targets(name, cmd, uid, id) ==
  {r \in Table(name) :
     r.id = id /\ Using(name, "SELECT", uid, r) /\ Using(name, cmd, uid, r)}

NoQuery == [uid |-> "none", cmd |-> "none", table |-> "none", id |-> 0,
            ok |-> TRUE, rows |-> {}]

\* The state right after the migration: both tables exist and are empty.
SchemaCreated ==
  /\ resource_categories = {}
  /\ resources = {}
  /\ lastQuery = NoQuery

notRls == <<cryptoVars, tableVars, obsVars, massVars, pageVars>>

\* SELECT * FROM name, by the session of uid.
SelectRows(uid, name) ==
  /\ lastQuery' = [uid |-> uid, cmd |-> "SELECT", table |-> name, id |-> 0,
                   ok |-> TRUE,
                   rows |-> {r \in Table(name) : Using(name, "SELECT", uid, r)}]
  /\ UNCHANGED <<resource_categories, resources, notRls>>

\* INSERT INTO name VALUES row: the primary key and, for a resource, the
\* foreign key to its category are checked against the whole table, the
\* row against the WITH CHECK expression.
InsertRow(uid, name, row) ==
  LET ok == /\ row.id \notin RowIdsOf(Table(name))
            /\ name = "resources"
                 => row.category_id \in RowIdsOf(resource_categories)
            /\ WithCheck(name, "INSERT", uid, row)
      new == IF ok THEN Table(name) \cup {row} ELSE Table(name)
  IN /\ resource_categories' =
          IF name = "resource_categories" THEN new ELSE resource_categories
     /\ resources' = IF name = "resources" THEN new ELSE resources
     /\ lastQuery' = [uid |-> uid, cmd |-> "INSERT", table |-> name,
                      id |-> row.id, ok |-> ok, rows |-> {}]
     /\ UNCHANGED notRls

\* UPDATE name SET user_id = owner WHERE id = id: the statement fails as a
\* whole when a new row does not pass WITH CHECK.
UpdateRow(uid, name, id, owner) ==
  LET old == Targets(name, "UPDATE", uid, id)
      changed == {[r EXCEPT !.user_id = owner] : r \in old}
      ok == \A r \in changed : WithCheck(name, "UPDATE", uid, r)
      new == IF ok THEN (Table(name) \ old) \cup changed ELSE Table(name)
  IN /\ resource_categories' =
          IF name = "resource_categories" THEN new ELSE resource_categories
     /\ resources' = IF name = "resources" THEN new ELSE resources
     /\ lastQuery' = [uid |-> uid, cmd |-> "UPDATE", table |-> name,
                      id |-> id, ok |-> ok, rows |-> {}]
     /\ UNCHANGED notRls

\* DELETE FROM name WHERE id = id.  resources.category_id is declared
\* REFERENCES resource_categories(id) ON DELETE CASCADE: the resources of a
\* deleted category go with it, and this referential action is not subject
\* to the policies.
DeleteRow(uid, name, id) ==
  LET old == Targets(name, "DELETE", uid, id)
  IN /\ resource_categories' =
          IF name = "resource_categories"
            THEN resource_categories \ old ELSE resource_categories
     /\ resources' =
          IF name = "resources" THEN resources \ old
          ELSE {r \in resources : r.category_id \notin RowIdsOf(old)}
     /\ lastQuery' = [uid |-> uid, cmd |-> "DELETE", table |-> name,
                      id |-> id, ok |-> TRUE, rows |-> {}]
     /\ UNCHANGED notRls

\* ------------------------------------------- the encryption pair on its own
DecryptionError == [err |-> TRUE, text |-> <<>>]

IsCiphertext(c) ==
  /\ Len(c) >= 2
  /\ Len(c) - 2 <= MaxLen
  /\ \E k \in Keys, n \in Nonces, s \in [1..(Len(c) - 2) -> Chars] :
       c = Encrypt(k, n, s)

\* What a stored ciphertext can be damaged into: nonce dropped, truncated,
\* key binding zeroed, or the plaintext stored unencrypted.
Damaged(c) ==
  {Tail(c), SubSeq(c, 1, 1), [c EXCEPT ![2] = 0], plaintext}

\* producedBy is the key that produced the ciphertext, 0 when there is none
\* yet and -1 for a damaged one; decryptedWith is the key of the last decrypt
\* of it, 0 when there was none; recovered holds the nonces of the
\* ciphertexts of this process' key that decrypt has returned the plaintext
\* for.
CryptoIdle ==
  /\ ciphertext = <<>>
  /\ producedBy = 0
  /\ decrypted = DecryptionError
  /\ decryptedWith = 0
  /\ recovered = {}

EncryptCall(k, n) ==
  /\ ciphertext' = Encrypt(k, n, plaintext)
  /\ producedBy' = k
  /\ decryptedWith' = 0
  /\ decrypted' = DecryptionError
  /\ UNCHANGED <<plaintext, recovered, rlsVars, tableVars, obsVars, massVars, pageVars>>

Corrupt ==
  /\ producedBy > 0
  /\ \E c \in Damaged(ciphertext) :
       /\ ~IsCiphertext(c)
       /\ ciphertext' = c
  /\ producedBy' = -1
  /\ decryptedWith' = 0
  /\ decrypted' = DecryptionError
  /\ UNCHANGED <<plaintext, recovered, rlsVars, tableVars, obsVars, massVars, pageVars>>

DecryptCall(k) ==
  /\ producedBy # 0
  /\ decrypted' = Decrypt(k, ciphertext)
  /\ decryptedWith' = k
  /\ recovered' =
       IF producedBy = AppKey /\ k = AppKey /\ decrypted' = [err |-> FALSE, text |-> plaintext]
         THEN recovered \cup {ciphertext[1]}
         ELSE recovered
  /\ UNCHANGED <<plaintext, ciphertext, producedBy, rlsVars, tableVars, obsVars,
                 massVars, pageVars>>

\* --------------------------------------------- the displayed list of records
Ids == 1..NumRecords
Fields == {"key", "password"}

\* The secret a user stored in a field: non-empty, and different for every
\* (record, field).
SecretOf(id, f) ==
  IF f = "key" THEN [i \in 1..id |-> 1] ELSE <<1>> \o [i \in 1..id |-> 0]

ForeignKey == CHOOSE k \in Keys : k # AppKey

\* A row as the persistence layer returns it.  kind says what the last row
\* holds: both secrets under this process' key, no password, or one secret
\* encrypted by another key instance.
RowOf(id, kind) ==
  LET n == id % NumNonces
      own(f) == Encrypt(AppKey, n, SecretOf(id, f))
      foreign(f) == Encrypt(ForeignKey, n, SecretOf(id, f))
  IN [encrypted_password |->
        CASE kind = "nopassword" -> <<>>
          [] kind = "foreignpassword" -> foreign("password")
          [] OTHER -> own("password"),
      encrypted_api_key |->
        IF kind = "foreignkey" THEN foreign("key") ELSE own("key")]

Kinds == {"nopassword", "foreignpassword", "foreignkey"}

Tables ==
  {[id \in Ids |-> RowOf(id, IF id = NumRecords THEN kind ELSE "good")] :
     kind \in Kinds}

\* The row of a record after its owner stored new secrets for it: the old
\* ones with a character put in front, encrypted afresh.
EditedRow(id) ==
  LET n == (id + 1) % NumNonces
  IN [encrypted_password |-> Encrypt(AppKey, n, <<0>> \o SecretOf(id, "password")),
      encrypted_api_key |-> Encrypt(AppKey, n, <<0>> \o SecretOf(id, "key"))]

\* What a later select can return for the listed records.
RefetchedTables ==
  Tables \cup {[id \in Ids |-> IF id = 1 THEN EditedRow(id) ELSE RowOf(id, "good")]}

Encrypted(id, f) ==
  IF f = "key" THEN apiKeys[id].encrypted_api_key
               ELSE apiKeys[id].encrypted_password

\* ------------------------------------------------- reveal state and rendering
NoEntry == [has |-> FALSE, key |-> <<>>, password |-> <<>>]
EmptyMap == [id \in Ids |-> NoEntry]
Refs == 0..MaxPending

\* The Map object the decryptedData state currently refers to.
Cache == mapHeap[decryptedData]

VisibleSet(f) == IF f = "key" THEN visibleKeys ELSE visiblePasswords

\* x || fallback on strings: the empty string is falsy.
OrElse(x, fallback) == IF x = <<>> THEN fallback ELSE x

MaskPassword == [i \in 1..8 |-> -1]
MaskKey == <<-4, -5, -3>> \o [i \in 1..21 |-> -2]
MaskKeyMissing == <<-4, -5, -3, -2, -2, -2>>
NoPassword == <<-3>>

RenderShowsCache(f, row, visible, entry) ==
  IF f = "password"
    THEN IF row.encrypted_password = <<>>
           THEN NoPassword
           ELSE OrElse(entry.password, MaskPassword)
    ELSE OrElse(entry.key, MaskKey)

\* The text rendered in the cell of field f of a row, given whether the
\* row's id is in the field's visible set and the row's entry of the Map.
Render(f, row, visible, entry) ==
  IF f = "password"
    THEN IF row.encrypted_password = <<>>
           THEN NoPassword
           ELSE IF visible
                  THEN OrElse(entry.password, MaskPassword)
                  ELSE MaskPassword
    ELSE IF visible
           THEN OrElse(entry.key, MaskKeyMissing)
           ELSE MaskKey

Display(id, f) == Render(f, apiKeys[id], id \in VisibleSet(f), Cache[id])

\* The toggle and copy buttons of a password exist only for a stored password.
HasButtons(id, f) == f = "key" \/ apiKeys[id].encrypted_password # <<>>

\* --------------------------------------------------------- toggleVisibility
\* The handlers suspended at an await are a bag: they resume in any order.
Without(pending, t) == pending (-) SetToBag({t})
HeldMaps(closures) == {c.map : c \in BagToSet(closures)}

SetVisibleSetOfBoth(f, newSet) ==
  /\ visibleKeys' = newSet
  /\ visiblePasswords' = newSet

\* setVisibleKeys / setVisiblePasswords, whichever the field selects.
SetVisibleSet(f, newSet) ==
  /\ visibleKeys' = IF f = "key" THEN newSet ELSE visibleKeys
  /\ visiblePasswords' = IF f = "password" THEN newSet ELSE visiblePasswords

\* Bookkeeping of a completed Hidden->Revealed toggle.
NoteReveal(id, f, entry) ==
  /\ reveals' = [reveals EXCEPT ![<<id, f>>] = @ + 1]
  /\ firstShown' = IF reveals[<<id, f>>] = 0
                     THEN [firstShown EXCEPT ![<<id, f>>] =
                             Render(f, apiKeys[id], TRUE, entry)]
                     ELSE firstShown
  /\ lastOp' = [op |-> "reveal", id |-> id, field |-> f]

HideFieldDropsCache(id, f) ==
  /\ SetVisibleSet(f, VisibleSet(f) \ {id})
  /\ mapHeap' = [mapHeap EXCEPT ![decryptedData] = [@ EXCEPT ![id] = NoEntry]]
  /\ UNCHANGED <<decryptedData, pendingToggles>>

\* Revealed->Hidden: a copy of the visible set without id.
HideField(id, f) ==
  /\ SetVisibleSet(f, VisibleSet(f) \ {id})
  /\ UNCHANGED <<decryptedData, mapHeap, pendingToggles>>

\* A click on the eye button of field f of record id, up to the await of
\* decrypt or, when nothing is awaited, to the end of the handler.  The
\* handler reads the visible set and the Map of the render it belongs to.
ToggleVisibility(id, f) ==
  /\ clicks < MaxClicks
  /\ HasButtons(id, f)
  /\ clicks' = clicks + 1
  /\ overlapped' = (overlapped \/ pendingToggles # EmptyBag)
  /\ UNCHANGED <<apiKeys, exported, copiedId, pendingCopies, timers, clipboard, copyAge,
                 cryptoVars, rlsVars, massVars, pageVars>>
  /\ IF id \in VisibleSet(f)
       THEN /\ HideField(id, f)
            /\ lastOp' = [op |-> "hide", id |-> id, field |-> f]
            /\ UNCHANGED <<decryptCalls, reveals, firstShown>>
       ELSE IF ~Cache[id].has
              THEN /\ BagCardinality(pendingToggles (+) orphanToggles) < MaxPending
                   /\ pendingToggles' = pendingToggles (+) SetToBag({
                        [id |-> id, field |-> f, encrypted |-> Encrypted(id, f),
                         visibleSet |-> VisibleSet(f), map |-> decryptedData]})
                   /\ decryptCalls' = [decryptCalls EXCEPT ![<<id, f>>] = @ + 1]
                   /\ UNCHANGED <<visibleKeys, visiblePasswords, decryptedData,
                                  mapHeap, reveals, firstShown, lastOp>>
              ELSE /\ SetVisibleSet(f, VisibleSet(f) \cup {id})
                   /\ UNCHANGED <<decryptedData, mapHeap, pendingToggles,
                                  decryptCalls>>
                   /\ NoteReveal(id, f, Cache[id])

\* The Maps still referred to keep their contents; the others are garbage.
Collect(heap, live) == [r \in Refs |-> IF r \in live THEN heap[r] ELSE EmptyMap]

DecryptSettledSwallowsError(t) ==
  /\ BagIn(t, pendingToggles)
  /\ LET rest == Without(pendingToggles, t)
     IN /\ pendingToggles' = rest
        /\ UNCHANGED <<apiKeys, exported, copiedId, pendingCopies, timers, clipboard,
                       copyAge, cryptoVars, rlsVars, massVars, pageVars, clicks,
                       overlapped,
                       decryptCalls>>
        /\ mapHeap' = Collect(mapHeap, HeldMaps(rest (+) orphanToggles)
                                          \cup {decryptedData})
        /\ UNCHANGED decryptedData
        /\ SetVisibleSet(t.field, t.visibleSet \cup {t.id})
        /\ NoteReveal(t.id, t.field, Cache[t.id])

\* The decrypt awaited by the pending toggle t settles and the handler
\* resumes with the visible set and the Map object it captured at the click.
DecryptSettled(t) ==
  /\ BagIn(t, pendingToggles)
  /\ LET res == Decrypt(AppKey, t.encrypted)
         rest == Without(pendingToggles, t)
         held == HeldMaps(rest (+) orphanToggles)
     IN /\ pendingToggles' = rest
        /\ UNCHANGED <<apiKeys, exported, copiedId, pendingCopies, timers, clipboard,
                       copyAge, cryptoVars, rlsVars, massVars, pageVars, clicks,
                       overlapped,
                       decryptCalls>>
        /\ IF res.err
             THEN \* decrypt rejects: the handler ends at the await
                  /\ mapHeap' = Collect(mapHeap, held \cup {decryptedData})
                  /\ lastOp' = [op |-> "decryptfailed", id |-> t.id, field |-> t.field]
                  /\ UNCHANGED <<decryptedData, visibleKeys, visiblePasswords,
                                 reveals, firstShown>>
             ELSE LET old == mapHeap[t.map][t.id]
                      currentData == IF old.has THEN old
                                     ELSE [has |-> TRUE, key |-> <<>>, password |-> <<>>]
                      entry == [currentData EXCEPT ![t.field] = res.text]
                      \* decryptedData.set mutates the captured Map in place
                      mutated == [mapHeap[t.map] EXCEPT ![t.id] = entry]
                      \* new Map(...) is a fresh object
                      fresh == CHOOSE r \in Refs \ held :
                                 \A q \in Refs \ held : r <= q
                  IN /\ decryptedData' = fresh
                     /\ mapHeap' = [r \in Refs |->
                          IF r = fresh \/ (r = t.map /\ r \in held) THEN mutated
                          ELSE IF r \in held THEN mapHeap[r]
                          ELSE EmptyMap]
                     /\ SetVisibleSet(t.field, t.visibleSet \cup {t.id})
                     /\ NoteReveal(t.id, t.field, entry)

\* ---------------------------------------------------------- copyToClipboard
\* setTimeout(..., 2000)
CopyDelay == 2000
\* Time advances in steps of half the delay.
TimeStep == CopyDelay \div 2

NoCopied == [prefix |-> "null", id |-> 0]
\* `pwd-${key.id}` and `key-${key.id}`
CopyId(id, f) == [prefix |-> IF f = "key" THEN "key" ELSE "pwd", id |-> id]

\* What no step of a copy touches.
copyFrame == <<visibleKeys, visiblePasswords, decryptedData, mapHeap,
               pendingToggles, overlapped, decryptCalls, reveals, firstShown>>

\* A click on the copy button of field f of record id, up to the await of
\* decrypt.
CopyToClipboard(id, f) ==
  /\ clicks < MaxEvents
  /\ BagCardinality(pendingCopies) < MaxPending
  /\ HasButtons(id, f)
  /\ clicks' = clicks + 1
  /\ pendingCopies' = pendingCopies (+) SetToBag({
       [text |-> Encrypted(id, f), id |-> id, field |-> f, pc |-> "decrypt",
        decrypted |-> <<>>]})
  /\ UNCHANGED <<apiKeys, exported, copiedId, timers, clipboard, copyAge, lastOp,
                 copyFrame, cryptoVars, rlsVars, massVars,
                 pageVars>>

CopyDecryptSettledKeepsCiphertext(c) ==
  /\ BagIn(c, pendingCopies)
  /\ c.pc = "decrypt"
  /\ pendingCopies' = Without(pendingCopies, c) (+) SetToBag({
       [c EXCEPT !.pc = "write", !.decrypted = c.text]})
  /\ UNCHANGED <<apiKeys, exported, copiedId, timers, clipboard, copyAge, lastOp, clicks,
                 copyFrame, cryptoVars, rlsVars, massVars,
                 pageVars>>

\* The decrypt awaited by the pending copy c settles; on success the handler
\* calls navigator.clipboard.writeText(decrypted) and awaits it.
CopyDecryptSettled(c) ==
  /\ BagIn(c, pendingCopies)
  /\ c.pc = "decrypt"
  /\ LET res == Decrypt(AppKey, c.text)
     IN IF res.err
          THEN /\ pendingCopies' = Without(pendingCopies, c)
               /\ lastOp' = [op |-> "copyfailed", id |-> c.id, field |-> c.field]
          ELSE /\ pendingCopies' = Without(pendingCopies, c) (+) SetToBag({
                    [c EXCEPT !.pc = "write", !.decrypted = res.text]})
               /\ UNCHANGED lastOp
  /\ UNCHANGED <<apiKeys, exported, copiedId, timers, clipboard, copyAge, clicks,
                 copyFrame, cryptoVars, rlsVars, massVars,
                 pageVars>>

ClipboardSettledIgnoresFailure(c, ok) ==
  /\ BagIn(c, pendingCopies)
  /\ c.pc = "write"
  /\ pendingCopies' = Without(pendingCopies, c)
  /\ clipboard' = IF ok THEN c.decrypted ELSE clipboard
  /\ copiedId' = CopyId(c.id, c.field)
  /\ timers' = Append(timers, CopyDelay)
  /\ copyAge' = 0
  /\ lastOp' = [op |-> IF ok THEN "copied" ELSE "copyfailed",
                id |-> c.id, field |-> c.field]
  /\ UNCHANGED <<apiKeys, exported, clicks, copyFrame, cryptoVars, rlsVars, massVars,
                 pageVars>>

\* The clipboard write awaited by the pending copy c settles.  When it
\* succeeded the clipboard holds the text, the indicator is set and a timer
\* is armed.
ClipboardSettled(c, ok) ==
  /\ BagIn(c, pendingCopies)
  /\ c.pc = "write"
  /\ pendingCopies' = Without(pendingCopies, c)
  /\ IF ok
       THEN /\ clipboard' = c.decrypted
            /\ copiedId' = CopyId(c.id, c.field)
            /\ timers' = Append(timers, CopyDelay)
            /\ copyAge' = 0
            /\ lastOp' = [op |-> "copied", id |-> c.id, field |-> c.field]
       ELSE /\ lastOp' = [op |-> "copyfailed", id |-> c.id, field |-> c.field]
            /\ UNCHANGED <<clipboard, copiedId, timers, copyAge>>
  /\ UNCHANGED <<apiKeys, exported, clicks, copyFrame, cryptoVars, rlsVars, massVars,
                 pageVars>>

\* A timer armed by a copy is due: () => setCopiedId(null).
TimerFires ==
  /\ timers # <<>>
  /\ Head(timers) = 0
  /\ timers' = Tail(timers)
  /\ copiedId' = NoCopied
  /\ lastOp' = [op |-> "timer", id |-> 0, field |-> "none"]
  /\ UNCHANGED <<apiKeys, exported, pendingCopies, clipboard, copyAge, clicks,
                 copyFrame, cryptoVars, rlsVars, massVars,
                 pageVars>>

\* Time passes, never past a timer that is due.
Tick ==
  /\ timers # <<>>
  /\ \A j \in 1..Len(timers) : timers[j] >= TimeStep
  /\ timers' = [j \in 1..Len(timers) |-> timers[j] - TimeStep]
  /\ copyAge' = IF copyAge + TimeStep < CopyDelay THEN copyAge + TimeStep
                                                   ELSE CopyDelay
  /\ UNCHANGED <<apiKeys, exported, copiedId, pendingCopies, clipboard, lastOp, clicks,
                 copyFrame, cryptoVars, rlsVars, massVars,
                 pageVars>>

\* ------------------------------------------------------------- the export
\* A record as the page holds it: the two ciphertexts of the row, and its
\* other columns, none of which is text of a secret.
ApiKeyOf(id) ==
  [id |-> <<-20, id>>,
   user_id |-> <<-21>>,
   service_name |-> <<-22>>,
   email_username |-> <<-23, id>>,
   encrypted_password |-> apiKeys[id].encrypted_password,
   encrypted_api_key |-> apiKeys[id].encrypted_api_key,
   notes |-> <<-24, id>>,
   tags |-> <<>>,
   created_at |-> <<-25, id>>,
   updated_at |-> <<-26, id>>]

NoExport == <<>>

handleExportRevealed ==
  /\ exported' = [i \in Ids |->
       [service_name |-> ApiKeyOf(i).service_name,
        email_username |-> ApiKeyOf(i).email_username,
        encrypted_password |->
          IF i \in visiblePasswords THEN Cache[i].password
                                    ELSE ApiKeyOf(i).encrypted_password,
        encrypted_api_key |->
          IF i \in visibleKeys THEN Cache[i].key
                               ELSE ApiKeyOf(i).encrypted_api_key,
        notes |-> ApiKeyOf(i).notes,
        tags |-> ApiKeyOf(i).tags,
        created_at |-> ApiKeyOf(i).created_at,
        updated_at |-> ApiKeyOf(i).updated_at]]
  /\ lastOp' = [op |-> "export", id |-> 0, field |-> "none"]
  /\ UNCHANGED <<apiKeys, visibleKeys, visiblePasswords, decryptedData, mapHeap,
                 copiedId, pendingToggles, pendingCopies, timers, clipboard,
                 clicks, overlapped, decryptCalls, reveals, firstShown,
                 copyAge, cryptoVars, rlsVars, massVars, pageVars>>

\* WebsitePage.handleExport: the objects that JSON.stringify writes to the
\* downloaded file, one for every record of apiKeys.
handleExport ==
  /\ exported' = [i \in Ids |->
       [service_name |-> ApiKeyOf(i).service_name,
        email_username |-> ApiKeyOf(i).email_username,
        encrypted_password |-> ApiKeyOf(i).encrypted_password,
        encrypted_api_key |-> ApiKeyOf(i).encrypted_api_key,
        notes |-> ApiKeyOf(i).notes,
        tags |-> ApiKeyOf(i).tags,
        created_at |-> ApiKeyOf(i).created_at,
        updated_at |-> ApiKeyOf(i).updated_at]]
  /\ lastOp' = [op |-> "export", id |-> 0, field |-> "none"]
  /\ UNCHANGED <<apiKeys, visibleKeys, visiblePasswords, decryptedData, mapHeap,
                 copiedId, pendingToggles, pendingCopies, timers, clipboard,
                 clicks, overlapped, decryptCalls, reveals, firstShown,
                 copyAge, cryptoVars, rlsVars, massVars, pageVars>>

\* MainDashboard / WebsitePage: the response of a select reaches
\* fetchApiKeys, setApiKeys(data).  The page keeps its visible sets and its
\* Map, which are state of the page itself.
ListRefetched(table) ==
  /\ apiKeys # table
  /\ apiKeys' = table
  /\ lastOp' = [op |-> "refetched", id |-> 0, field |-> "none"]
  /\ UNCHANGED <<exported, visibleKeys, visiblePasswords, decryptedData, mapHeap,
                 copiedId, pendingToggles, pendingCopies, timers, clipboard,
                 clicks, overlapped, decryptCalls, reveals, firstShown,
                 copyAge, cryptoVars, rlsVars, massVars, pageVars>>

\* ------------------------------------------------------------ the list page
\* Dashboard, MainDashboard and WebsitePage share fetchApiKeys and
\* handleDelete.  A request to the persistence layer is served there at some
\* moment and its response reaches the page later, in any order.  after is
\* what the page knew to be deleted when it sent the request (observation).
SelectRequest(after) ==
  [kind |-> "select", id |-> 0, stage |-> "sent", ok |-> TRUE, data |-> {},
   after |-> after]
DeleteRequest(id) ==
  [kind |-> "delete", id |-> id, stage |-> "sent", ok |-> TRUE, data |-> {},
   after |-> {}]

NoPageOp == [op |-> "none", id |-> 0]

\* Requests on their way, counting the one a running mass-add submit makes.
InFlight ==
  BagCardinality(requests) + (IF submit.pc = "idle" THEN 0 ELSE 1)

\* The smallest reference no suspended handler holds.
FreshRef(held) == CHOOSE r \in Refs \ held : \A q \in Refs \ held : r <= q

\* What the reveal component of the page holds.
tableState == <<visibleKeys, visiblePasswords, decryptedData, mapHeap,
                copiedId, pendingToggles, orphanToggles>>

UnmountKeepsMap ==
  /\ visibleKeys' = {}
  /\ visiblePasswords' = {}
  /\ copiedId' = NoCopied
  /\ orphanToggles' = orphanToggles (+) pendingToggles
  /\ pendingToggles' = EmptyBag
  /\ UNCHANGED <<decryptedData, mapHeap>>

\* Dashboard renders ApiKeysTable only while loading is false: when loading
\* becomes true the table is unmounted, and the table mounted afterwards
\* starts from its useState initial values with a Map of its own.  The
\* handlers of the unmounted table stay suspended with the Map they captured.
Unmount ==
  /\ visibleKeys' = {}
  /\ visiblePasswords' = {}
  /\ copiedId' = NoCopied
  /\ orphanToggles' = orphanToggles (+) pendingToggles
  /\ pendingToggles' = EmptyBag
  /\ LET held == HeldMaps(orphanToggles (+) pendingToggles)
     IN /\ decryptedData' = FreshRef(held)
        /\ mapHeap' = Collect(mapHeap, held)

\* fetchApiKeys up to its await: setLoading(true) and the select is sent.
\* others are the requests that stay on their way.
FetchApiKeys(others, after) ==
  /\ pageLoading' = TRUE
  /\ requests' = others (+) SetToBag({SelectRequest(after)})
  /\ Unmount

HandleDeleteSkipsConfirm(id, ok) ==
  /\ ~pageLoading
  /\ id \in listed
  /\ InFlight < MaxRequests
  /\ requests' = requests (+) SetToBag({DeleteRequest(id)})
  /\ pageOp' = [op |-> IF ok THEN "deleteSent" ELSE "declined", id |-> id]
  /\ confirmed' = IF ok THEN confirmed \cup {id} ELSE confirmed
  /\ UNCHANGED <<stored, listed, pageLoading, isModalOpen, deletedOk,
                 tableState, apiKeys, exported, pendingCopies, timers, clipboard,
                 obsVars, cryptoVars, rlsVars, massVars>>

\* A click on the delete button of a listed record, up to the await of the
\* delete; ok is the user's answer to confirm().  The list with its buttons
\* is rendered only while loading is false.
HandleDelete(id, ok) ==
  /\ ~pageLoading
  /\ id \in listed
  /\ InFlight < MaxRequests
  /\ IF ok
       THEN /\ requests' = requests (+) SetToBag({DeleteRequest(id)})
            /\ pageOp' = [op |-> "deleteSent", id |-> id]
            /\ confirmed' = confirmed \cup {id}
       ELSE /\ pageOp' = [op |-> "declined", id |-> id]
            /\ UNCHANGED <<requests, confirmed>>
  /\ UNCHANGED <<stored, listed, pageLoading, isModalOpen, deletedOk,
                 tableState, apiKeys, exported, pendingCopies, timers, clipboard,
                 obsVars, cryptoVars, rlsVars, massVars>>

ServedSoftDelete(r, ok) ==
  /\ BagIn(r, requests)
  /\ r.stage = "sent"
  /\ requests' = Without(requests, r) (+) SetToBag({
       [r EXCEPT !.stage = "served", !.ok = ok,
                 !.data = IF ok /\ r.kind = "select" THEN stored ELSE {}]})
  /\ UNCHANGED <<stored, listed, pageLoading, isModalOpen, pageOp, confirmed,
                 deletedOk, tableState, apiKeys, exported, pendingCopies, timers,
                 clipboard, obsVars, cryptoVars, rlsVars, massVars>>

\* The persistence layer serves a request: a select reads the stored rows,
\* a delete removes the row with the id; either may fail instead.
Served(r, ok) ==
  /\ BagIn(r, requests)
  /\ r.stage = "sent"
  /\ requests' = Without(requests, r) (+) SetToBag({
       [r EXCEPT !.stage = "served", !.ok = ok,
                 !.data = IF ok /\ r.kind = "select" THEN stored ELSE {}]})
  /\ stored' = IF ok /\ r.kind = "delete" THEN stored \ {r.id} ELSE stored
  /\ UNCHANGED <<listed, pageLoading, isModalOpen, pageOp, confirmed,
                 deletedOk, tableState, apiKeys, exported, pendingCopies, timers,
                 clipboard, obsVars, cryptoVars, rlsVars, massVars>>

FetchSettledClearsOnError(r) ==
  /\ BagIn(r, requests)
  /\ r.kind = "select"
  /\ r.stage = "served"
  /\ requests' = Without(requests, r)
  /\ listed' = r.data
  /\ pageOp' = [op |-> IF r.ok THEN "fetched" ELSE "fetchFailed", id |-> 0]
  /\ pageLoading' = FALSE
  /\ UNCHANGED <<stored, isModalOpen, confirmed, deletedOk, tableState,
                 apiKeys, exported, pendingCopies, timers, clipboard, obsVars,
                 cryptoVars, rlsVars, massVars>>

\* The response of a select reaches fetchApiKeys: setApiKeys(data) unless
\* there was an error, which is only logged; then setLoading(false).
FetchSettled(r) ==
  /\ BagIn(r, requests)
  /\ r.kind = "select"
  /\ r.stage = "served"
  /\ requests' = Without(requests, r)
  /\ listed' = IF r.ok THEN r.data ELSE listed
  /\ pageOp' = [op |-> IF r.ok THEN "fetched" ELSE "fetchFailed", id |-> 0]
  /\ pageLoading' = FALSE
  /\ UNCHANGED <<stored, isModalOpen, confirmed, deletedOk, tableState,
                 apiKeys, exported, pendingCopies, timers, clipboard, obsVars,
                 cryptoVars, rlsVars, massVars>>

\* The response of a delete reaches handleDelete: an error is only logged,
\* a success calls fetchApiKeys().
DeleteSettled(r) ==
  /\ BagIn(r, requests)
  /\ r.kind = "delete"
  /\ r.stage = "served"
  /\ IF r.ok
       THEN /\ pageOp' = [op |-> "deleted", id |-> r.id]
            /\ deletedOk' = deletedOk \cup {r.id}
            /\ FetchApiKeys(Without(requests, r), deletedOk \cup {r.id})
       ELSE /\ pageOp' = [op |-> "deleteFailed", id |-> r.id]
            /\ requests' = Without(requests, r)
            /\ UNCHANGED <<deletedOk, pageLoading, tableState>>
  /\ UNCHANGED <<stored, listed, isModalOpen, confirmed, apiKeys, exported,
                 pendingCopies, timers, clipboard, obsVars, cryptoVars, rlsVars,
                 massVars>>

\* The decrypt awaited by a toggle of an unmounted table settles: the handler
\* resumes, decryptedData.set mutates the Map it captured, and its state
\* updates go to a component that no longer exists.
OrphanDecryptSettled(t) ==
  /\ BagIn(t, orphanToggles)
  /\ LET res == Decrypt(AppKey, t.encrypted)
         rest == Without(orphanToggles, t)
         live == HeldMaps(rest (+) pendingToggles) \cup {decryptedData}
         old == mapHeap[t.map][t.id]
         currentData == IF old.has THEN old
                        ELSE [has |-> TRUE, key |-> <<>>, password |-> <<>>]
         mutated == [mapHeap[t.map] EXCEPT
                       ![t.id] = [currentData EXCEPT ![t.field] = res.text]]
     IN /\ orphanToggles' = rest
        /\ mapHeap' = IF res.err THEN Collect(mapHeap, live)
                      ELSE Collect([mapHeap EXCEPT ![t.map] = mutated], live)
        /\ lastOp' = [op |-> "discarded", id |-> t.id, field |-> t.field]
  /\ UNCHANGED <<visibleKeys, visiblePasswords, decryptedData, copiedId,
                 pendingToggles, apiKeys, exported, pendingCopies, timers, clipboard,
                 clicks, overlapped, decryptCalls, reveals, firstShown,
                 copyAge, stored, listed, pageLoading, isModalOpen, requests,
                 pageOp, confirmed, deletedOk, cryptoVars, rlsVars, massVars>>

\* Dashboard.handleAdd / handleEdit: the add/edit modal opens.
handleAdd ==
  /\ ~isModalOpen
  /\ isModalOpen' = TRUE
  /\ pageOp' = [op |-> "modalOpened", id |-> 0]
  /\ UNCHANGED <<stored, listed, pageLoading, requests, confirmed, deletedOk,
                 tableState, apiKeys, exported, pendingCopies, timers, clipboard,
                 obsVars, cryptoVars, rlsVars, massVars>>

\* Dashboard.handleModalClose: the modal closes and the list is fetched.
handleModalClose ==
  /\ isModalOpen
  /\ InFlight < MaxRequests
  /\ isModalOpen' = FALSE
  /\ pageOp' = [op |-> "modalClosed", id |-> 0]
  /\ FetchApiKeys(requests, deletedOk)
  /\ UNCHANGED <<stored, listed, confirmed, deletedOk, apiKeys, exported, pendingCopies,
                 timers, clipboard, obsVars, cryptoVars, rlsVars, massVars>>

\* ------------------------------------------------------------ MassAddModal
\* Character 0 is the blank: trim() strips it from both ends.
RECURSIVE TrimLeft(_)
TrimLeft(s) == IF s # <<>> /\ Head(s) = 0 THEN TrimLeft(Tail(s)) ELSE s
RECURSIVE TrimRight(_)
TrimRight(s) ==
  IF s # <<>> /\ s[Len(s)] = 0 THEN TrimRight(SubSeq(s, 1, Len(s) - 1)) ELSE s
Trim(s) == TrimRight(TrimLeft(s))

\* What a user types into a field of a row.
TypedTexts == {<<>>, <<0>>, <<1>>}
RowFields == {"email_username", "password", "api_key", "notes"}

BlankRow(id) ==
  [id |-> id, email_username |-> <<>>, password |-> <<>>, api_key |-> <<>>,
   notes |-> <<>>]

NoSubmit == [pc |-> "idle", rows |-> <<>>, user |-> "none"]
\* The argument of the last insert call, with the rows it was made from.
NoInsert == [rows |-> <<>>, payload |-> <<>>, encryptCalls |-> 0]

MassIdle ==
  /\ rows = <<BlankRow(1)>>
  /\ loading = FALSE
  /\ error = ""
  /\ submit = NoSubmit
  /\ inserted = NoInsert
  /\ insertCalls = 0
  /\ onSuccessCalls = 0
  /\ onCloseCalls = 0
  /\ callbacks = <<>>
  /\ nextRowId = 2
  /\ edits = 0
  /\ submits = 0

submitVars == <<loading, error, submit, inserted, insertCalls,
                onSuccessCalls, onCloseCalls, callbacks, submits>>
notMass == <<cryptoVars, rlsVars, tableVars, obsVars, pageVars>>

\* The modal is mounted while the page's isModalOpen is set.
Open == isModalOpen /\ onCloseCalls = 0

\* The close and cancel buttons of the modal: onClose(), which in WebsitePage
\* is () => setIsModalOpen(false).
cancelModal ==
  /\ Open
  /\ isModalOpen' = FALSE
  /\ pageOp' = [op |-> "modalCancelled", id |-> 0]
  /\ UNCHANGED <<stored, listed, pageLoading, requests, confirmed, deletedOk,
                 tableState, apiKeys, exported, pendingCopies, timers, clipboard,
                 obsVars, cryptoVars, rlsVars, massVars>>

addRow ==
  /\ Open
  /\ edits < MaxEdits
  /\ Len(rows) < MaxRows
  /\ edits' = edits + 1
  /\ rows' = Append(rows, BlankRow(nextRowId))
  /\ nextRowId' = nextRowId + 1
  /\ UNCHANGED <<submitVars, notMass>>

removeRowAlways(id) ==
  /\ Open
  /\ edits < MaxEdits
  /\ edits' = edits + 1
  /\ rows' = SelectSeq(rows, LAMBDA row : row.id # id)
  /\ UNCHANGED <<nextRowId, submitVars, notMass>>

\* removeRow returns at once when one row is left.
removeRow(id) ==
  /\ Open
  /\ edits < MaxEdits
  /\ edits' = edits + 1
  /\ rows' = IF Len(rows) = 1 THEN rows
             ELSE SelectSeq(rows, LAMBDA row : row.id # id)
  /\ UNCHANGED <<nextRowId, submitVars, notMass>>

updateRow(id, field, value) ==
  /\ Open
  /\ edits < MaxEdits
  /\ edits' = edits + 1
  /\ rows' = [i \in 1..Len(rows) |->
               IF rows[i].id = id THEN [rows[i] EXCEPT ![field] = value]
                                  ELSE rows[i]]
  /\ UNCHANGED <<nextRowId, submitVars, notMass>>

EncryptRowKeepsPassword(user, serviceName, row, n) ==
  [user_id |-> user,
   service_name |-> serviceName,
   email_username |-> row.email_username,
   encrypted_password |-> row.password,
   encrypted_api_key |-> Encrypt(AppKey, n, row.api_key),
   notes |-> row.notes,
   tags |-> <<>>]

EncryptRowAlwaysEncrypts(user, serviceName, row, n) ==
  [user_id |-> user,
   service_name |-> serviceName,
   email_username |-> row.email_username,
   encrypted_password |-> Encrypt(AppKey, n, row.password),
   encrypted_api_key |-> Encrypt(AppKey, (n + 1) % NumNonces, row.api_key),
   notes |-> row.notes,
   tags |-> <<>>]

\* The encrypt calls that building the element of a row makes: one for the
\* password when it is not the empty string, one for the API key.
EncryptCallsOf(row) == (IF row.password # <<>> THEN 1 ELSE 0) + 1

RECURSIVE SumEncryptCalls(_)
SumEncryptCalls(rs) ==
  IF rs = <<>> THEN 0 ELSE EncryptCallsOf(Head(rs)) + SumEncryptCalls(Tail(rs))

\* One element of encryptedData; n is the nonce of the password's encryption,
\* the API key's takes the next one.
EncryptRow(user, serviceName, row, n) ==
  [user_id |-> user,
   service_name |-> serviceName,
   email_username |-> row.email_username,
   encrypted_password |->
     IF row.password # <<>> THEN Encrypt(AppKey, n, row.password) ELSE <<>>,
   encrypted_api_key |-> Encrypt(AppKey, (n + 1) % NumNonces, row.api_key),
   notes |-> row.notes,
   tags |-> <<>>]

\* handleSubmit up to the await of getUser.  The submit button is disabled
\* while loading, and the form submits only when every required API key
\* input is non-empty.
handleSubmit ==
  /\ Open
  /\ ~loading
  /\ submit.pc = "idle"
  /\ submits < MaxSubmits
  /\ InFlight < MaxRequests
  /\ \A i \in 1..Len(rows) : rows[i].api_key # <<>>
  /\ submits' = submits + 1
  /\ error' = ""
  /\ loading' = TRUE
  /\ submit' = [pc |-> "getUser", rows |-> rows, user |-> "none"]
  /\ UNCHANGED <<rows, nextRowId, edits, inserted, insertCalls,
                 onSuccessCalls, onCloseCalls, callbacks, notMass>>

GetUserSettledKeepsBlankRows(user) ==
  /\ submit.pc = "getUser"
  /\ IF user = "none"
       THEN /\ error' = "You must be logged in to add API keys"
            /\ loading' = FALSE
            /\ submit' = NoSubmit
       ELSE /\ submit' = [pc |-> "encrypt", rows |-> submit.rows,
                          user |-> user]
            /\ UNCHANGED <<error, loading>>
  /\ UNCHANGED <<rows, nextRowId, edits, inserted, insertCalls,
                 onSuccessCalls, onCloseCalls, callbacks, submits, notMass>>

GetUserSettledKeepsLoading(user) ==
  /\ submit.pc = "getUser"
  /\ LET validRows == SelectSeq(submit.rows, LAMBDA row : Trim(row.api_key) # <<>>)
     IN IF user = "none"
          THEN /\ error' = "You must be logged in to add API keys"
               /\ loading' = FALSE
               /\ submit' = NoSubmit
          ELSE IF Len(validRows) = 0
                 THEN /\ error' = "At least one row must have an API key"
                      /\ submit' = NoSubmit
                      /\ UNCHANGED loading
                 ELSE /\ submit' = [pc |-> "encrypt", rows |-> validRows,
                                    user |-> user]
                      /\ UNCHANGED <<error, loading>>
  /\ UNCHANGED <<rows, nextRowId, edits, inserted, insertCalls,
                 onSuccessCalls, onCloseCalls, callbacks, submits, notMass>>

\* getUser settles: not logged in, no valid row, or on to the encryption.
GetUserSettled(user) ==
  /\ submit.pc = "getUser"
  /\ LET validRows == SelectSeq(submit.rows, LAMBDA row : Trim(row.api_key) # <<>>)
     IN IF user = "none"
          THEN /\ error' = "You must be logged in to add API keys"
               /\ loading' = FALSE
               /\ submit' = NoSubmit
          ELSE IF Len(validRows) = 0
                 THEN /\ error' = "At least one row must have an API key"
                      /\ loading' = FALSE
                      /\ submit' = NoSubmit
                 ELSE /\ submit' = [pc |-> "encrypt", rows |-> validRows,
                                    user |-> user]
                      /\ UNCHANGED <<error, loading>>
  /\ UNCHANGED <<rows, nextRowId, edits, inserted, insertCalls,
                 onSuccessCalls, onCloseCalls, callbacks, submits, notMass>>

EncryptSettledInsertsAnyway(ok, n) ==
  /\ submit.pc = "encrypt"
  /\ inserted' =
       [rows |-> IF ok THEN submit.rows ELSE Tail(submit.rows),
        payload |-> [i \in 1..Len(IF ok THEN submit.rows ELSE Tail(submit.rows)) |->
           EncryptRow(submit.user, "service",
                      (IF ok THEN submit.rows ELSE Tail(submit.rows))[i],
                      (n + i) % NumNonces)],
        encryptCalls |-> SumEncryptCalls(submit.rows)]
  /\ insertCalls' = insertCalls + 1
  /\ submit' = [submit EXCEPT !.pc = "insert"]
  /\ UNCHANGED <<error, loading>>
  /\ UNCHANGED <<rows, nextRowId, edits, onSuccessCalls, onCloseCalls, callbacks,
                 submits, notMass>>

\* Promise.all over the rows' encryptions settles: rejected when an encrypt
\* failed, and otherwise the one insert of all rows is issued.
EncryptSettled(ok, n) ==
  /\ submit.pc = "encrypt"
  /\ IF ok
       THEN /\ inserted' =
                 [rows |-> submit.rows,
                  payload |-> [i \in 1..Len(submit.rows) |->
                     EncryptRow(submit.user, "service", submit.rows[i],
                                (n + i) % NumNonces)],
                  encryptCalls |-> SumEncryptCalls(submit.rows)]
            /\ insertCalls' = insertCalls + 1
            /\ submit' = [submit EXCEPT !.pc = "insert"]
            /\ UNCHANGED <<error, loading>>
       ELSE /\ error' = "EncryptionError"
            /\ loading' = FALSE
            /\ submit' = NoSubmit
            /\ UNCHANGED <<inserted, insertCalls>>
  /\ UNCHANGED <<rows, nextRowId, edits, onSuccessCalls, onCloseCalls, callbacks,
                 submits, notMass>>

\* The ids the persistence layer gives the rows of the last insert.
NewIds ==
  {NumRecords + (insertCalls - 1) * MaxRows + i : i \in 1..Len(inserted.rows)}

InsertSettledNoRefetch(ok) ==
  /\ submit.pc = "insert"
  /\ submit' = NoSubmit
  /\ loading' = FALSE
  /\ IF ok
       THEN /\ onSuccessCalls' = onSuccessCalls + 1
            /\ onCloseCalls' = onCloseCalls + 1
            /\ callbacks' = <<"onSuccess", "onClose">>
            /\ stored' = stored \cup NewIds
            /\ isModalOpen' = FALSE
            /\ pageOp' = [op |-> "inserted", id |-> 0]
            /\ UNCHANGED <<error, pageLoading, requests, tableState>>
       ELSE /\ error' = "PersistenceError"
            /\ UNCHANGED <<onSuccessCalls, onCloseCalls, callbacks, stored, isModalOpen,
                           pageOp, pageLoading, requests, tableState>>
  /\ UNCHANGED <<rows, nextRowId, edits, inserted, insertCalls, submits,
                 listed, confirmed, deletedOk, apiKeys, exported, pendingCopies, timers,
                 clipboard, obsVars, cryptoVars, rlsVars>>

InsertSettledClosesOnError(ok) ==
  /\ submit.pc = "insert"
  /\ submit' = NoSubmit
  /\ loading' = FALSE
  /\ onCloseCalls' = onCloseCalls + 1
  /\ isModalOpen' = FALSE
  /\ IF ok
       THEN /\ onSuccessCalls' = onSuccessCalls + 1
            /\ callbacks' = <<"onSuccess", "onClose">>
            /\ stored' = stored \cup NewIds
            /\ FetchApiKeys(requests, deletedOk)
            /\ pageOp' = [op |-> "inserted", id |-> 0]
            /\ UNCHANGED error
       ELSE /\ error' = "PersistenceError"
            /\ callbacks' = <<"onClose">>
            /\ UNCHANGED <<onSuccessCalls, stored, pageOp, pageLoading,
                           requests, tableState>>
  /\ UNCHANGED <<rows, nextRowId, edits, inserted, insertCalls, submits,
                 listed, confirmed, deletedOk, apiKeys, exported, pendingCopies, timers,
                 clipboard, obsVars, cryptoVars, rlsVars>>

\* The insert settles: onSuccess(), which in WebsitePage is fetchApiKeys,
\* and onClose(); or the error message.
InsertSettled(ok) ==
  /\ submit.pc = "insert"
  /\ submit' = NoSubmit
  /\ loading' = FALSE
  /\ IF ok
       THEN /\ onSuccessCalls' = onSuccessCalls + 1
            /\ onCloseCalls' = onCloseCalls + 1
            /\ callbacks' = <<"onSuccess", "onClose">>
            /\ stored' = stored \cup NewIds
            /\ FetchApiKeys(requests, deletedOk)
            /\ isModalOpen' = FALSE
            /\ pageOp' = [op |-> "inserted", id |-> 0]
            /\ UNCHANGED error
       ELSE /\ error' = "PersistenceError"
            /\ UNCHANGED <<onSuccessCalls, onCloseCalls, callbacks, stored, isModalOpen,
                           pageOp, pageLoading, requests, tableState>>
  /\ UNCHANGED <<rows, nextRowId, edits, inserted, insertCalls, submits,
                 listed, confirmed, deletedOk, apiKeys, exported, pendingCopies, timers,
                 clipboard, obsVars, cryptoVars, rlsVars>>

\* ------------------------------------------------------ the reveal component
TableIdle ==
  /\ visibleKeys = {}
  /\ visiblePasswords = {}
  /\ decryptedData = 0
  /\ mapHeap = [r \in Refs |-> EmptyMap]
  /\ copiedId = NoCopied
  /\ pendingToggles = EmptyBag
  /\ pendingCopies = EmptyBag
  /\ timers = <<>>
  /\ clipboard = Null
  /\ exported = NoExport

ObsIdle ==
  /\ lastOp = [op |-> "none", id |-> 0, field |-> "none"]
  /\ clicks = 0
  /\ overlapped = FALSE
  /\ decryptCalls = [x \in Ids \X Fields |-> 0]
  /\ reveals = [x \in Ids \X Fields |-> 0]
  /\ firstShown = [x \in Ids \X Fields |-> Null]
  /\ copyAge = CopyDelay

\* The page has fetched the list, nothing is on its way, no modal is open.
PageLoaded ==
  /\ stored = Ids
  /\ listed = Ids
  /\ pageLoading = FALSE
  /\ requests = EmptyBag
  /\ orphanToggles = EmptyBag
  /\ pageOp = NoPageOp
  /\ confirmed = {}
  /\ deletedOk = {}

Init ==
  /\ plaintext = <<>>
  /\ CryptoIdle
  /\ SchemaCreated
  /\ apiKeys \in Tables
  /\ TableIdle
  /\ ObsIdle
  /\ MassIdle
  /\ PageLoaded
  /\ isModalOpen = FALSE

Next ==
  \/ \E id \in Ids, f \in Fields : ToggleVisibility(id, f)
  \/ \E t \in BagToSet(pendingToggles) : DecryptSettled(t)

Spec == Init /\ [][Next]_vars

\* ------------------------------------------------ the encryption pair alone
InitCrypto ==
  /\ plaintext \in Strings
  /\ CryptoIdle
  /\ SchemaCreated
  /\ apiKeys = [id \in Ids |-> RowOf(id, "good")]
  /\ TableIdle
  /\ ObsIdle
  /\ MassIdle
  /\ PageLoaded
  /\ isModalOpen = FALSE

NextCrypto ==
  \/ \E k \in Keys, n \in Nonces : EncryptCall(k, n)
  \/ Corrupt
  \/ \E k \in Keys : DecryptCall(k)

SpecCrypto == InitCrypto /\ [][NextCrypto]_vars

\* ---------------------------------------------------------- the mass-add form
NextMassAdd ==
  \/ addRow
  \/ \E i \in 1..Len(rows) : removeRow(rows[i].id)
  \/ \E i \in 1..Len(rows), field \in RowFields, value \in TypedTexts :
       updateRow(rows[i].id, field, value)
  \/ handleSubmit
  \/ \E user \in {"none", "u1"} : GetUserSettled(user)
  \/ \E ok \in BOOLEAN, n \in Nonces : EncryptSettled(ok, n)
  \/ \E ok \in BOOLEAN : InsertSettled(ok)
  \/ cancelModal

\* WebsitePage with its list fetched and the mass-add modal open.
InitMassAdd ==
  /\ plaintext = <<>>
  /\ CryptoIdle
  /\ SchemaCreated
  /\ apiKeys = [id \in Ids |-> RowOf(id, "good")]
  /\ TableIdle
  /\ ObsIdle
  /\ MassIdle
  /\ PageLoaded
  /\ isModalOpen = TRUE

SpecMassAdd == InitMassAdd /\ [][NextMassAdd]_vars

\* The submit on its own: the keys are typed, and every promise that
\* handleSubmit awaits settles.
NextSubmit ==
  \/ addRow
  \/ \E i \in 1..Len(rows), value \in TypedTexts :
       updateRow(rows[i].id, "api_key", value)
  \/ handleSubmit
  \/ \E user \in {"none", "u1"} : GetUserSettled(user)
  \/ \E ok \in BOOLEAN, n \in Nonces : EncryptSettled(ok, n)
  \/ \E ok \in BOOLEAN : InsertSettled(ok)
  \/ cancelModal

SpecMassAddFair ==
  /\ InitMassAdd
  /\ [][NextSubmit]_vars
  /\ WF_vars(\E user \in {"none", "u1"} : GetUserSettled(user))
  /\ WF_vars(\E ok \in BOOLEAN, n \in Nonces : EncryptSettled(ok, n))
  /\ WF_vars(\E ok \in BOOLEAN : InsertSettled(ok))

\* ------------------------------------------------------------ the list page
\* The page right after its first render: useState(true) for loading, an
\* empty list, and the select that the mount effect sent.
InitPage ==
  /\ plaintext = <<>>
  /\ CryptoIdle
  /\ SchemaCreated
  /\ apiKeys = [id \in Ids |-> RowOf(id, "good")]
  /\ TableIdle
  /\ ObsIdle
  /\ MassIdle
  /\ stored = Ids
  /\ listed = {}
  /\ pageLoading = TRUE
  /\ requests = SetToBag({SelectRequest({})})
  /\ orphanToggles = EmptyBag
  /\ pageOp = NoPageOp
  /\ confirmed = {}
  /\ deletedOk = {}
  /\ isModalOpen = FALSE

NextPage ==
  \/ \E id \in listed, ok \in BOOLEAN : HandleDelete(id, ok)
  \/ \E r \in BagToSet(requests), ok \in BOOLEAN : Served(r, ok)
  \/ \E r \in BagToSet(requests) : FetchSettled(r)
  \/ \E r \in BagToSet(requests) : DeleteSettled(r)
  \/ handleAdd
  \/ handleModalClose

SpecPage == InitPage /\ [][NextPage]_vars

\* The page with a persistence layer that serves every request without
\* error, and a user who confirms every delete.
NextOverlap ==
  \/ \E id \in listed : HandleDelete(id, TRUE)
  \/ \E r \in BagToSet(requests) : Served(r, TRUE)
  \/ \E r \in BagToSet(requests) : FetchSettled(r)
  \/ \E r \in BagToSet(requests) : DeleteSettled(r)
  \/ handleAdd
  \/ handleModalClose

SpecOverlap == InitPage /\ [][NextOverlap]_vars

\* A request that was sent is served and its response reaches the handler
\* that awaits it; nothing obliges the user to click.
SpecPageFair ==
  /\ InitPage
  /\ [][NextPage]_vars
  /\ WF_vars(\E r \in BagToSet(requests), ok \in BOOLEAN : Served(r, ok))
  /\ WF_vars(\E r \in BagToSet(requests) : FetchSettled(r))
  /\ WF_vars(\E r \in BagToSet(requests) : DeleteSettled(r))

\* ------------------------------------------ sessions on the resources schema
InitRls ==
  /\ plaintext = <<>>
  /\ CryptoIdle
  /\ SchemaCreated
  /\ apiKeys = [id \in Ids |-> RowOf(id, "good")]
  /\ TableIdle
  /\ ObsIdle
  /\ MassIdle
  /\ PageLoaded
  /\ isModalOpen = FALSE

NextRls ==
  \/ \E uid \in Users, name \in TableNames : SelectRows(uid, name)
  \/ \E uid \in Users, name \in TableNames, row \in CategoryRows \cup ResourceRows :
       row \in RowsOf(name) /\ InsertRow(uid, name, row)
  \/ \E uid \in Users, name \in TableNames, id \in RowIds, owner \in Users :
       UpdateRow(uid, name, id, owner)
  \/ \E uid \in Users, name \in TableNames, id \in RowIds :
       DeleteRow(uid, name, id)

SpecRls == InitRls /\ [][NextRls]_vars

\* ------------------------------------------- WebsitePage with its export
NextExport ==
  \/ \E id \in Ids, f \in Fields :
       clicks < MaxEvents /\ ToggleVisibility(id, f)
  \/ \E t \in BagToSet(pendingToggles) : DecryptSettled(t)
  \/ handleExport

SpecExport == Init /\ [][NextExport]_vars

\* ------------------------------------- a page that keeps its reveal state
NextRefetch ==
  \/ \E id \in Ids, f \in Fields :
       clicks < MaxEvents /\ ToggleVisibility(id, f)
  \/ \E t \in BagToSet(pendingToggles) : DecryptSettled(t)
  \/ \E table \in RefetchedTables : ListRefetched(table)

SpecRefetch == Init /\ [][NextRefetch]_vars

\* ---------------------------------------- Dashboard with its ApiKeysTable
\* The table is on the page only while loading is false.
NextDashboard ==
  \/ \E id \in listed \cap {1}, f \in Fields :
       ~pageLoading /\ clicks < MaxEvents /\ ToggleVisibility(id, f)
  \/ \E t \in BagToSet(pendingToggles) : DecryptSettled(t)
  \/ \E t \in BagToSet(orphanToggles) : OrphanDecryptSettled(t)
  \/ requests = EmptyBag /\ handleAdd
  \/ handleModalClose
  \/ \E r \in BagToSet(requests), ok \in BOOLEAN : Served(r, ok)
  \/ \E r \in BagToSet(requests) : FetchSettled(r)

SpecDashboard == Init /\ [][NextDashboard]_vars

\* ------------------------------------------ every mutation of the stored rows
\* The page with its list fetched and its modal open: confirmed deletes of
\* the first record, the closing of the add/edit modal, and a mass-add submit
\* of a row once an API key was typed into it.
NextMutations ==
  \/ \E id \in listed \cap {1} : HandleDelete(id, TRUE)
  \/ \E r \in BagToSet(requests), ok \in BOOLEAN : Served(r, ok)
  \/ \E r \in BagToSet(requests) : FetchSettled(r)
  \/ \E r \in BagToSet(requests) : DeleteSettled(r)
  \/ handleModalClose
  \/ \E i \in 1..Len(rows) :
       rows[i].api_key = <<>> /\ updateRow(rows[i].id, "api_key", <<1>>)
  \/ handleSubmit
  \/ \E user \in {"none", "u1"} : GetUserSettled(user)
  \/ \E ok \in BOOLEAN : EncryptSettled(ok, 0)
  \/ \E ok \in BOOLEAN : InsertSettled(ok)

SpecMutations == InitMassAdd /\ [][NextMutations]_vars

\* ------------------------------------------- the component with copy and time
NextCopy ==
  \/ \E id \in Ids, f \in Fields : CopyToClipboard(id, f)
  \/ \E c \in BagToSet(pendingCopies) : CopyDecryptSettled(c)
  \/ \E c \in BagToSet(pendingCopies), ok \in BOOLEAN : ClipboardSettled(c, ok)
  \/ TimerFires
  \/ Tick
  \/ \E id \in Ids, f \in Fields : clicks < MaxEvents /\ ToggleVisibility(id, f)
  \/ \E t \in BagToSet(pendingToggles) : DecryptSettled(t)

SpecCopy == Init /\ [][NextCopy]_vars

\* ==================================================================== claims

\* C1: every row of every insert payload carries only ciphertext for its
\* secrets: encrypted_api_key is an encryption of the row's API key, and
\* encrypted_password is the empty string or an encryption of the row's
\* password; neither is the plaintext secret.
Encrypts(c, s) == c # s /\ Decrypt(AppKey, c) = [err |-> FALSE, text |-> s]

InsertCarriesCiphertext ==
  /\ Len(inserted.payload) = Len(inserted.rows)
  /\ \A i \in 1..Len(inserted.rows) :
       LET row == inserted.rows[i]
           sent == inserted.payload[i]
       IN /\ Encrypts(sent.encrypted_api_key, row.api_key)
          /\ \/ sent.encrypted_password = <<>>
             \/ Encrypts(sent.encrypted_password, row.password)
          /\ row.password # <<>> => sent.encrypted_password # row.password

\* The second insert call carried a row with a password.
InsertCarriesCiphertextWitness ==
  /\ insertCalls = 2
  /\ inserted.rows[1].password # <<>>
  /\ inserted.payload[1].encrypted_password # <<>>
  /\ inserted.payload[1].encrypted_api_key # <<>>

\* C2: for every plaintext s, decrypt(encrypt(s)) returns s, whatever nonce
\* the encryption embedded: a ciphertext produced by encrypt decrypts, under
\* the key that produced it, to the plaintext without error.
RoundTrip ==
  (producedBy > 0 /\ decryptedWith = producedBy)
    => decrypted = [err |-> FALSE, text |-> plaintext]

\* Two different ciphertexts of one longest plaintext were decrypted to it.
RoundTripWitness ==
  /\ Len(plaintext) = MaxLen
  /\ Cardinality(recovered) >= 2
  /\ producedBy = AppKey
  /\ decryptedWith = AppKey
  /\ decrypted.text = plaintext

\* C3: decrypt of a ciphertext produced under a different key, or of a
\* malformed ciphertext, fails with a DecryptionError and returns no text.
WrongKeyOrMalformedFails ==
  (decryptedWith # 0 /\ producedBy # decryptedWith)
    => decrypted = DecryptionError

\* A ciphertext of another key, or a damaged one, of a non-empty plaintext
\* was given to decrypt under this process' key.
WrongKeyOrMalformedWitness ==
  /\ plaintext # <<>>
  /\ producedBy \in {ForeignKey, -1}
  /\ decryptedWith = AppKey
  /\ decrypted.err

\* The plaintext of field f of record id, when its ciphertext decrypts.
Decrypts(id, f) == ~Decrypt(AppKey, Encrypted(id, f)).err
PlainOf(id, f) == Decrypt(AppKey, Encrypted(id, f)).text
Revealed(id, f) == lastOp = [op |-> "reveal", id |-> id, field |-> f]

\* C4: whatever toggles came before, a Hidden->Revealed toggle of a field
\* whose ciphertext decrypts has decrypted that field's ciphertext (now or
\* for an earlier reveal of the field), and the field ends Revealed and
\* displays the field's plaintext, not a placeholder.
RevealShowsPlaintext ==
  \A id \in Ids, f \in Fields :
    (Revealed(id, f) /\ Decrypts(id, f))
      => /\ decryptCalls[<<id, f>>] >= 1
         /\ id \in VisibleSet(f)
         /\ Display(id, f) = PlainOf(id, f)

\* C5: when no toggle starts before the previous one completed, a second (or
\* later) reveal of a field displays what its first reveal displayed, and
\* decrypt was invoked exactly once for the field over the whole sequence.
SecondRevealIsCacheHit ==
  \A id \in Ids, f \in Fields :
    (~overlapped /\ Revealed(id, f) /\ reveals[<<id, f>>] >= 2)
      => /\ Display(id, f) = firstShown[<<id, f>>]
         /\ decryptCalls[<<id, f>>] = 1

\* C6: the step in which the decrypt of a Hidden->Revealed toggle fails
\* adds no record to a visible set and writes no entry to the cache.
FailedDecryptStaysHidden ==
  [][\A t \in BagToSet(pendingToggles) :
       (DecryptSettled(t) /\ Decrypt(AppKey, t.encrypted).err)
         => /\ visibleKeys' = visibleKeys
            /\ visiblePasswords' = visiblePasswords
            /\ decryptedData' = decryptedData
            /\ Cache' = Cache
            /\ \A r \in Refs, id \in Ids : mapHeap'[r][id].has => mapHeap[r][id].has]_vars

\* A decrypt has just failed for a field that is Hidden and has no entry.
FailedDecryptWitness ==
  /\ lastOp.op = "decryptfailed"
  /\ lastOp.id \notin VisibleSet(lastOp.field)
  /\ ~Cache[lastOp.id].has
  /\ decryptCalls[<<lastOp.id, lastOp.field>>] >= 1

Mask(id, f) ==
  IF f = "key" THEN MaskKey
  ELSE IF HasButtons(id, f) THEN MaskPassword ELSE NoPassword

\* C7: before any click every field is Hidden, and in every state a Hidden
\* field displays its fixed placeholder and not its plaintext, also when the
\* plaintext is in the cache.
HiddenShowsMask ==
  /\ clicks = 0 => (visibleKeys = {} /\ visiblePasswords = {})
  /\ \A id \in Ids, f \in Fields :
       id \notin VisibleSet(f)
         => /\ Display(id, f) = Mask(id, f)
            /\ Display(id, f) # SecretOf(id, f)

\* A Hidden field whose plaintext is in the cache.
HiddenShowsMaskWitness ==
  \E id \in Ids, f \in Fields :
    /\ id \notin VisibleSet(f)
    /\ Cache[id].has
    /\ Cache[id][f] = SecretOf(id, f)

\* C8: a Revealed->Hidden toggle removes the record from the field's visible
\* set and changes nothing else: not the cache, the other field's visible
\* set, the copied indicator or the clipboard, and it starts no decrypt.
HideOnlyDropsFlag ==
  [][\A id \in Ids, f \in Fields :
       (ToggleVisibility(id, f) /\ id \in VisibleSet(f))
         => /\ visibleKeys' = IF f = "key" THEN visibleKeys \ {id} ELSE visibleKeys
            /\ visiblePasswords' =
                 IF f = "password" THEN visiblePasswords \ {id} ELSE visiblePasswords
            /\ decryptedData' = decryptedData
            /\ mapHeap' = mapHeap
            /\ copiedId' = copiedId
            /\ clipboard' = clipboard
            /\ timers' = timers
            /\ pendingToggles' = pendingToggles
            /\ pendingCopies' = pendingCopies
            /\ decryptCalls' = decryptCalls]_vars

\* A field was just hidden while the indicator is set; its plaintext stays in
\* the cache.
HideOnlyDropsFlagWitness ==
  /\ lastOp.op = "hide"
  /\ lastOp.id \notin VisibleSet(lastOp.field)
  /\ Cache[lastOp.id][lastOp.field] = SecretOf(lastOp.id, lastOp.field)
  /\ copiedId # NoCopied

\* C9: a copy whose decrypt and clipboard write both succeeded has written
\* the decryption of the field's ciphertext to the clipboard and set the
\* copied indicator to the field's identifier.
CopyWritesPlaintext ==
  \A id \in Ids, f \in Fields :
    lastOp = [op |-> "copied", id |-> id, field |-> f]
      => /\ Decrypts(id, f)
         /\ clipboard = PlainOf(id, f)
         /\ clipboard = SecretOf(id, f)
         /\ copiedId = CopyId(id, f)

\* Both fields of a record were copied, the password last.
CopyWritesPlaintextWitness ==
  \E id \in Ids :
    /\ lastOp = [op |-> "copied", id |-> id, field |-> "password"]
    /\ clipboard = SecretOf(id, "password")
    /\ copiedId = CopyId(id, "password")
    /\ Len(timers) >= 2

\* C10: after every copy the indicator stays set until CopyDelay has passed
\* since that copy, and a set indicator has a timer that will clear it.
CopiedStaysForDelay ==
  /\ copyAge < CopyDelay => copiedId # NoCopied
  /\ copiedId # NoCopied => timers # <<>>

\* The decrypt calls of copies that are awaited.
CopyDecryptsPending(pending) ==
  BagCardinality([c \in {d \in BagToSet(pending) : d.pc = "decrypt"} |->
                    pending[c]])

\* C11: a click on the copy button of a field whose plaintext is in the
\* cache starts no decrypt call.
CopyUsesCache ==
  [][\A id \in Ids, f \in Fields :
       (CopyToClipboard(id, f) /\ Cache[id].has /\ Cache[id][f] = SecretOf(id, f))
         => CopyDecryptsPending(pendingCopies') = CopyDecryptsPending(pendingCopies)]_vars

\* C12: every row of an insert has a non-empty encrypted_api_key, and its
\* encrypted_password is the empty string exactly when the row's password
\* input is empty; an empty password costs no encrypt call.
PasswordEmptyIffNotTyped ==
  /\ \A i \in 1..Len(inserted.rows) :
       /\ inserted.payload[i].encrypted_api_key # <<>>
       /\ inserted.payload[i].encrypted_password = <<>>
            <=> inserted.rows[i].password = <<>>
  /\ inserted.encryptCalls =
       Len(inserted.rows)
         + Cardinality({i \in 1..Len(inserted.rows) : inserted.rows[i].password # <<>>})

\* A row with an API key and no password was inserted with one encrypt call.
PasswordEmptyIffNotTypedWitness ==
  /\ insertCalls >= 1
  /\ Len(inserted.rows) = 1
  /\ inserted.rows[1].password = <<>>
  /\ inserted.payload[1].encrypted_password = <<>>
  /\ inserted.payload[1].encrypted_api_key # <<>>
  /\ inserted.encryptCalls = 1

\* The result of every list query sent after a delete succeeded lacks the
\* deleted record.
LaterQueriesLackDeleted ==
  \A r \in BagToSet(requests) :
    (r.kind = "select" /\ r.stage = "served" /\ r.ok) => r.data \cap r.after = {}

\* C13: after a confirmed delete of a record succeeded the record is absent
\* from the result of every later list query, and the displayed list
\* eventually no longer contains it.
DeletedRecordGone ==
  /\ []LaterQueriesLackDeleted
  /\ \A id \in Ids : (id \in deletedOk) ~> (id \notin listed)

\* C13 as amended: the record is absent from the result of every later list
\* query, and the displayed list does not contain it at the moment such a
\* query's result is displayed.
DeletedRecordGoneOnceRefetched ==
  [][/\ LaterQueriesLackDeleted'
     /\ \A r \in BagToSet(requests) :
          (FetchSettled(r) /\ r.ok) => listed' \cap r.after = {}]_vars

\* The list fetched after a successful delete is on display, without the
\* deleted record, which is no longer stored either.
DeletedRecordGoneWitness ==
  /\ pageOp.op = "fetched"
  /\ deletedOk # {}
  /\ deletedOk \cap listed = {}
  /\ deletedOk \cap stored = {}
  /\ listed # {}
  /\ requests = EmptyBag

\* C14: a delete reaches the persistence layer only for a record whose
\* deletion the user confirmed, and a declined confirmation sends no delete,
\* starts no fetch and leaves the displayed list unchanged.
DeleteNeedsConfirm ==
  [][/\ \A r \in BagToSet(requests') : r.kind = "delete" => r.id \in confirmed'
     /\ (Ids \ stored') \subseteq confirmed'
     /\ \A id \in listed :
          HandleDelete(id, FALSE)
            => /\ requests' = requests
               /\ listed' = listed
               /\ stored' = stored
               /\ pageLoading' = pageLoading]_vars

\* The deletion of a listed record was just declined; nothing was ever
\* confirmed, nothing is on its way and every record is stored and listed.
DeleteNeedsConfirmWitness ==
  /\ pageOp.op = "declined"
  /\ pageOp.id \in listed
  /\ confirmed = {}
  /\ requests = EmptyBag
  /\ stored = Ids
  /\ listed = Ids
  /\ ~pageLoading

\* C15: under any interleaving of clicks and decrypt completions, a step of
\* a toggle on one record changes neither the visibility flags nor the
\* cached plaintext of any other record.
RecordsIndependent ==
  [][\A a \in Ids :
       (\/ \E f \in Fields : ToggleVisibility(a, f)
        \/ \E t \in BagToSet(pendingToggles) : t.id = a /\ DecryptSettled(t))
         => \A b \in Ids \ {a} :
              /\ b \in visibleKeys' <=> b \in visibleKeys
              /\ b \in visiblePasswords' <=> b \in visiblePasswords
              /\ Cache'[b] = Cache[b]]_vars

\* C16: a failed delete leaves the displayed list unchanged and starts no
\* fetch; a failed fetch leaves the displayed list unchanged and ends with
\* the loading flag false.
PersistenceErrorKeepsList ==
  [][\A r \in BagToSet(requests) :
       /\ (DeleteSettled(r) /\ ~r.ok)
            => /\ listed' = listed
               /\ requests' = Without(requests, r)
               /\ pageLoading' = pageLoading
       /\ (FetchSettled(r) /\ ~r.ok)
            => /\ listed' = listed
               /\ requests' = Without(requests, r)
               /\ ~pageLoading']_vars

\* A fetch has just failed while records were on display: they still are,
\* and the page is not loading.
PersistenceErrorKeepsListWitness ==
  /\ pageOp.op = "fetchFailed"
  /\ listed # {}
  /\ ~pageLoading
  /\ requests = EmptyBag

\* The selects that were sent and not yet served.
SentSelects(reqs) ==
  BagCardinality([r \in {q \in BagToSet(reqs) : q.kind = "select" /\ q.stage = "sent"}
                    |-> reqs[r]])

\* C17: the step that completes a successful delete, a successful mass-add
\* insert or the closing of the add/edit modal sends a select of the list
\* and sets the loading flag.
MutationRefetches ==
  [][(\/ \E r \in BagToSet(requests) : DeleteSettled(r) /\ r.ok
      \/ InsertSettled(TRUE)
      \/ handleModalClose)
       => /\ SentSelects(requests') = SentSelects(requests) + 1
          /\ pageLoading']_vars

\* A mass-add insert has just succeeded after an earlier delete did: the
\* list is being fetched.
MutationRefetchesWitness ==
  /\ pageOp.op = "inserted"
  /\ deletedOk # {}
  /\ onSuccessCalls = 1
  /\ SentSelects(requests) >= 1
  /\ pageLoading

\* C18: when the table is unmounted while a decrypt is pending, the result
\* of that decrypt is discarded: its completion changes neither a visible
\* set nor the cache, and the table that is mounted afterwards starts with
\* every field Hidden and an empty cache.
UnmountDiscardsDecrypt ==
  [][/\ \A t \in BagToSet(orphanToggles) :
          OrphanDecryptSettled(t)
            => /\ visibleKeys' = visibleKeys
               /\ visiblePasswords' = visiblePasswords
               /\ Cache' = Cache
     /\ (pageLoading /\ ~pageLoading')
          => /\ visibleKeys' = {}
             /\ visiblePasswords' = {}
             /\ Cache' = EmptyMap]_vars

\* A decrypt that succeeded was just discarded after the table was mounted
\* again: its field is Hidden and the cache has no entry for the record.
UnmountDiscardsDecryptWitness ==
  /\ lastOp.op = "discarded"
  /\ Decrypts(lastOp.id, lastOp.field)
  /\ ~pageLoading
  /\ pageOp.op = "fetched"
  /\ lastOp.id \notin VisibleSet(lastOp.field)
  /\ ~Cache[lastOp.id].has

RowsOwnedBy(uid, table) == \A r \in table : r.user_id = uid
Difference(old, new) == (old \ new) \cup (new \ old)

\* C19: a statement of an authenticated user returns, creates, changes and
\* removes only rows of resource_categories and resources whose user_id is
\* that user's id.
OwnRowsOnly ==
  [][/\ RowsOwnedBy(lastQuery'.uid, lastQuery'.rows)
     /\ RowsOwnedBy(lastQuery'.uid,
                    Difference(resource_categories, resource_categories'))
     /\ RowsOwnedBy(lastQuery'.uid, Difference(resources, resources'))]_vars

HasKey(row) == Trim(row.api_key) # <<>>

\* C20: an insert is issued only for an authenticated user and at least one
\* row whose API key is not blank, and carries no row whose key is blank;
\* when there is no user or no such row, the submit ends with an error
\* message and without encryption, insert, onSuccess or onClose.
SubmitNeedsUserAndKey ==
  [][/\ insertCalls' # insertCalls
          => /\ submit.user # "none"
             /\ Len(inserted'.rows) >= 1
             /\ Len(inserted'.payload) = Len(inserted'.rows)
             /\ \A i \in 1..Len(inserted'.rows) : HasKey(inserted'.rows[i])
     /\ \A user \in {"none", "u1"} :
          (/\ GetUserSettled(user)
           /\ \/ user = "none"
              \/ \A i \in 1..Len(submit.rows) : ~HasKey(submit.rows[i]))
            => /\ error' # ""
               /\ submit' = NoSubmit
               /\ ~loading'
               /\ UNCHANGED <<inserted, insertCalls, onSuccessCalls,
                              onCloseCalls>>]_vars

\* A submit of rows whose only key is a blank ended with the error message,
\* and no insert was ever issued.
SubmitNeedsUserAndKeyWitness ==
  /\ error = "At least one row must have an API key"
  /\ submit = NoSubmit
  /\ submits > 0
  /\ \E i \in 1..Len(rows) : rows[i].api_key # <<>> /\ ~HasKey(rows[i])
  /\ insertCalls = 0
  /\ onSuccessCalls = 0
  /\ onCloseCalls = 0

\* C21: the rows with a key go into one insert call, all of them; and when
\* an encryption fails no insert is issued, the error message is set and
\* the modal stays as it is.
MassAddAllOrNothing ==
  [][/\ submit'.pc = "encrypt" /\ submit.pc # "encrypt"
          => submit'.rows = SelectSeq(submit.rows, HasKey)
     /\ insertCalls' # insertCalls
          => /\ insertCalls' = insertCalls + 1
             /\ submit.pc = "encrypt"
             /\ submit'.pc = "insert"
             /\ inserted'.rows = submit.rows
             /\ Len(inserted'.payload) = Len(submit.rows)
     /\ submit.pc = "insert" => insertCalls' = insertCalls
     /\ \A n \in Nonces :
          EncryptSettled(FALSE, n)
            => /\ error' # ""
               /\ submit' = NoSubmit
               /\ UNCHANGED <<inserted, insertCalls, isModalOpen,
                              onCloseCalls, onSuccessCalls, rows>>]_vars

\* The encryption of a submit of two rows failed: the modal is open with the
\* error message, and nothing was inserted.
MassAddAllOrNothingWitness ==
  /\ error = "EncryptionError"
  /\ Open
  /\ Len(rows) >= 2
  /\ submits > 0
  /\ insertCalls = 0

\* C22: a submit calls onSuccess and then onClose, once each, exactly when
\* its insert returned without error; a failed insert calls neither and
\* keeps the rows of the form.
CallbacksOnlyAfterInsert ==
  [][/\ InsertSettled(TRUE)
          => /\ onSuccessCalls' = onSuccessCalls + 1
             /\ onCloseCalls' = onCloseCalls + 1
             /\ callbacks' = <<"onSuccess", "onClose">>
     /\ InsertSettled(FALSE)
          => /\ UNCHANGED <<onSuccessCalls, onCloseCalls, callbacks, rows>>
             /\ isModalOpen' = isModalOpen
     /\ <<onSuccessCalls, onCloseCalls, callbacks>>'
          # <<onSuccessCalls, onCloseCalls, callbacks>>
          => /\ submit.pc = "insert"
             /\ submit' = NoSubmit
             /\ error' = error
             /\ stored' = stored \cup NewIds]_vars

\* A second submit succeeded after the insert of the first had failed: the
\* callbacks were called once each, in order.
CallbacksOnlyAfterInsertWitness ==
  /\ insertCalls = 2
  /\ onSuccessCalls = 1
  /\ onCloseCalls = 1
  /\ callbacks = <<"onSuccess", "onClose">>
  /\ NewIds \subseteq stored

\* C23: the loading flag is set only while a submit is on its way, and every
\* submit ends, with the flag cleared.
SubmitEndsNotLoading ==
  /\ [](loading <=> submit.pc # "idle")
  /\ (submit.pc # "idle") ~> (submit.pc = "idle" /\ ~loading)

\* A submit of rows whose keys are all blank has ended, not loading.
SubmitEndsNotLoadingWitness ==
  /\ submits > 0
  /\ submit.pc = "idle"
  /\ ~loading
  /\ error = "At least one row must have an API key"

\* rows without its i-th element.
RemoveAt(s, i) == SubSeq(s, 1, i - 1) \o SubSeq(s, i + 1, Len(s))

QuietListMatchesStore == requests = EmptyBag => listed = stored

Placeholders == {MaskPassword, MaskKey, MaskKeyMissing, NoPassword}

\* C26: a field that is Revealed and shows a plaintext shows the decryption
\* of the ciphertext its record has in the displayed list.
ShownPlaintextIsCurrent ==
  \A id \in Ids, f \in Fields :
    (id \in VisibleSet(f) /\ Display(id, f) \notin Placeholders)
      => /\ Decrypts(id, f)
         /\ Display(id, f) = PlainOf(id, f)

\* C27: a copy whose decrypt or clipboard write fails ends there: the
\* copied indicator, the timers and the clipboard stay as they are, no
\* further step of a copy is started, and the visible sets and the cache
\* are unchanged.
FailedCopyEnds ==
  [][\A c \in BagToSet(pendingCopies) :
       (\/ CopyDecryptSettled(c) /\ Decrypt(AppKey, c.text).err
        \/ ClipboardSettled(c, FALSE))
         => /\ pendingCopies' = Without(pendingCopies, c)
            /\ UNCHANGED <<copiedId, timers, clipboard, visibleKeys,
                           visiblePasswords, pendingToggles>>
            /\ Cache' = Cache]_vars

\* The clipboard write of a copy failed after its decrypt had succeeded,
\* while a field is Revealed: no indicator, no timer, nothing written.
FailedCopyEndsWitness ==
  /\ lastOp.op = "copyfailed"
  /\ Decrypts(lastOp.id, lastOp.field)
  /\ copiedId = NoCopied
  /\ timers = <<>>
  /\ clipboard = Null
  /\ visibleKeys \cup visiblePasswords # {}

ExportFields ==
  {"service_name", "email_username", "encrypted_password",
   "encrypted_api_key", "notes", "tags", "created_at", "updated_at"}

\* The plaintexts of a record: what its ciphertexts decrypt to and what the
\* cache holds for it.
PlaintextsOf(id) ==
  ({PlainOf(id, f) : f \in {g \in Fields : Decrypts(id, g)}}
     \cup {Cache[id].key, Cache[id].password}) \ {<<>>}

\* C28: an export holds, for every record, the stored ciphertexts and the
\* other columns except id and user_id, and no decrypted secret.
ExportHoldsOnlyCiphertext ==
  exported # NoExport
    => \A id \in Ids :
         /\ DOMAIN exported[id] = ExportFields
         /\ exported[id].encrypted_password = apiKeys[id].encrypted_password
         /\ exported[id].encrypted_api_key = apiKeys[id].encrypted_api_key
         /\ \A c \in ExportFields \ {"encrypted_password", "encrypted_api_key"} :
              exported[id][c] = ApiKeyOf(id)[c]
         /\ \A c \in ExportFields : exported[id][c] \notin PlaintextsOf(id)

\* The records were exported while a key was Revealed and in the cache.
ExportHoldsOnlyCiphertextWitness ==
  /\ lastOp.op = "export"
  /\ exported # NoExport
  /\ \E id \in Ids :
       /\ id \in visibleKeys
       /\ Cache[id].key = SecretOf(id, "key")

OtherField(f) == IF f = "key" THEN "password" ELSE "key"

\* C29: a toggle of a field, from its click to the completion of its
\* decrypt, leaves the visible set of the other field as it is.
FieldsToggleSeparately ==
  [][/\ \A id \in Ids, f \in Fields :
          ToggleVisibility(id, f)
            => VisibleSet(OtherField(f))' = VisibleSet(OtherField(f))
     /\ \A t \in BagToSet(pendingToggles) :
          DecryptSettled(t)
            => VisibleSet(OtherField(t.field))' = VisibleSet(OtherField(t.field))]_vars

\* The key of a record was revealed while only the password of another
\* record is visible.
FieldsToggleSeparatelyWitness ==
  \E id \in Ids :
    /\ lastOp = [op |-> "reveal", id |-> id, field |-> "key"]
    /\ id \in visibleKeys
    /\ visiblePasswords # {}
    /\ id \notin visiblePasswords

\* The decrypts that reveals of field f of record id are waiting for.
PendingReveals(id, f) ==
  BagCardinality([t \in {u \in BagToSet(pendingToggles) :
                           u.id = id /\ u.field = f} |-> pendingToggles[t]])

\* C30: at no time are two decrypts pending for reveals of the same field
\* of the same record.
OneDecryptPerReveal ==
  \A id \in Ids, f \in Fields : PendingReveals(id, f) <= 1

====
